---- MODULE Spec2Model ----
(***************************************************************************)
(* Model of the shopping-list store of src/ShoppingList.py: the Product    *)
(* record, the ShoppingList operations on products and history, and the    *)
(* edit branch of the menu loop.                                           *)
(*                                                                         *)
(* Python objects live in a heap (object id -> fields); products is the    *)
(* list of object ids, history the list of (object id, timestamp) pairs.   *)
(* Optional arguments are <<>> (None) or <<v>> (a value).  Notes and the   *)
(* numeric console inputs are sequences of one-character strings; prices   *)
(* are whole numbers of the currency unit.                                 *)
(***************************************************************************)
EXTENDS Integers, Sequences, FiniteSets, TLC

VARIABLES
  heap,         \* object id -> fields of the Product object
  products,     \* self.products: list of object ids
  history,      \* self.history: list of <<object id, timestamp>>
  clock,        \* the next reading of datetime.datetime.now()
  ret,          \* what the last call returned or raised
  removed,      \* names removed successfully and not added again since
  removedLast   \* those of them removed while a single record had the name

vars == <<heap, products, history, clock, ret, removed, removedLast>>

\* ---- bounds ----
MaxProducts == 2
MaxHistory == 2

\* ---- input domains ----
None == <<>>
Some(v) == <<v>>
Opt(S) == {None} \cup {Some(v) : v \in S}

Bio == <<"B", "i", "o">>
Names == {"Milk", "Bread"}
Catalog ==
  {[name |-> "Milk", quantity |-> 2, category |-> "Dairy", price |-> 3, notes |-> Bio],
   [name |-> "Bread", quantity |-> 1, category |-> "Bakery", price |-> 2, notes |-> <<>>]}
EggsOnly ==
  {[name |-> "Eggs", quantity |-> 6, category |-> "Dairy", price |-> 1, notes |-> <<>>]}
EditPrices == {5}
FilterInputs ==
  {[criterion |-> "bought", category |-> "", min |-> <<>>, max |-> <<>>, keyword |-> <<>>],
   [criterion |-> "not bought", category |-> "", min |-> <<>>, max |-> <<>>, keyword |-> <<>>],
   [criterion |-> "category", category |-> "Dairy", min |-> <<>>, max |-> <<>>, keyword |-> <<>>],
   [criterion |-> "price range", category |-> "", min |-> <<"0", "3">>, max |-> <<"1", "0">>, keyword |-> <<>>],
   [criterion |-> "price range", category |-> "", min |-> <<>>, max |-> <<"5">>, keyword |-> <<>>],
   [criterion |-> "quantity", category |-> "", min |-> <<"2">>, max |-> <<"2">>, keyword |-> <<>>],
   [criterion |-> "notes", category |-> "", min |-> <<>>, max |-> <<>>, keyword |-> <<"b", "I">>],
   [criterion |-> "name", category |-> "", min |-> <<>>, max |-> <<>>, keyword |-> <<>>]}

\* the edit specification
EditNames == {"Milk", "Bread", "Eggs"}
Quantities == {1}
Prices == {2}
Categories == {""}
NotesSet == {<<>>}
CategoryInputs == {"Dairy", ""}
NotesInputs == {Bio, <<>>}
NumberInputs == {<<>>, <<"0", "2">>}

\* ---- Product ----
Product(name, quantity, category, price, notes, bought) ==
  [name |-> name, quantity |-> quantity, category |-> category,
   price |-> price, notes |-> notes, bought |-> bought]

\* mutant: the flag is left as it was
mark_as_bought_forgotten(self) == self

mark_as_bought(self) == [self EXCEPT !.bought = TRUE]

\* mutant: the category is ignored
edit_without_category(self, quantity, price, notes, category) ==
  LET s1 == IF quantity # None THEN [self EXCEPT !.quantity = quantity[1]] ELSE self
      s2 == IF price # None THEN [s1 EXCEPT !.price = price[1]] ELSE s1
      s3 == IF notes # None THEN [s2 EXCEPT !.notes = notes[1]] ELSE s2
  IN s3

\* mutant: the record is rebuilt with the default bought flag
edit_resets_bought(self, quantity, price, notes, category) ==
  [name |-> self.name,
   quantity |-> IF quantity # None THEN quantity[1] ELSE self.quantity,
   category |-> IF category # None THEN category[1] ELSE self.category,
   price |-> IF price # None THEN price[1] ELSE self.price,
   notes |-> IF notes # None THEN notes[1] ELSE self.notes,
   bought |-> FALSE]

edit(self, quantity, price, notes, category) ==
  LET s1 == IF quantity # None THEN [self EXCEPT !.quantity = quantity[1]] ELSE self
      s2 == IF price # None THEN [s1 EXCEPT !.price = price[1]] ELSE s1
      s3 == IF notes # None THEN [s2 EXCEPT !.notes = notes[1]] ELSE s2
      s4 == IF category # None THEN [s3 EXCEPT !.category = category[1]] ELSE s3
  IN s4

\* ---- heap and list helpers ----
Range(s) == {s[i] : i \in DOMAIN s}

\* Object ids stand for addresses.  An object made by the caller of add_product
\* gets the least free positive id, one made inside the store the least free
\* negative one.
FreshId(h) ==
  CHOOSE i \in 1..(Cardinality(DOMAIN h) + 1) :
    i \notin DOMAIN h /\ \A j \in 1..(i - 1) : j \in DOMAIN h

FreshStoreId(h) ==
  -(CHOOSE i \in 1..(Cardinality(DOMAIN h) + 1) :
      (-i) \notin DOMAIN h /\ \A j \in 1..(i - 1) : (-j) \in DOMAIN h)

Collect(h, prods, hist) ==
  [id \in (Range(prods) \cup {hist[i][1] : i \in DOMAIN hist}) |-> h[id]]

RECURSIVE FindFrom(_, _, _, _)
FindFrom(h, prods, product_name, i) ==
  IF i > Len(prods) THEN 0
  ELSE IF h[prods[i]].name = product_name THEN i
  ELSE FindFrom(h, prods, product_name, i + 1)

Find(product_name) == FindFrom(heap, products, product_name, 1)

RECURSIVE IndexOf(_, _, _)
IndexOf(s, x, i) ==
  IF i > Len(s) THEN 0 ELSE IF s[i] = x THEN i ELSE IndexOf(s, x, i + 1)

\* mutant: the last element is removed, whatever x is
list_remove_last(s, x) == SubSeq(s, 1, Len(s) - 1)

list_remove(s, x) ==
  LET k == IndexOf(s, x, 1)
  IN [i \in 1..(Len(s) - 1) |-> IF i < k THEN s[i] ELSE s[i + 1]]

Returned(op, kind) == [op |-> op, kind |-> kind, value |-> <<>>]

\* ---- ShoppingList ----
Init ==
  /\ heap = <<>>
  /\ products = <<>>
  /\ history = <<>>
  /\ clock = 1
  /\ ret = Returned("__init__", "None")
  /\ removed = {}
  /\ removedLast = {}

add_product(name, quantity, category, price, notes) ==
  /\ Len(products) < MaxProducts
  /\ LET id == FreshId(heap)
     IN /\ heap' = heap @@ (id :> Product(name, quantity, category, price, notes, FALSE))
        /\ products' = Append(products, id)
  /\ ret' = Returned("add_product", "None")
  /\ UNCHANGED <<history, clock>>

\* mutant: a missing name is passed over in silence
remove_product_silent(product_name) ==
  LET k == Find(product_name)
  IN /\ products' = IF k # 0 THEN list_remove(products, products[k]) ELSE products
     /\ heap' = Collect(heap, products', history)
     /\ ret' = Returned("remove_product", "None")
     /\ UNCHANGED <<history, clock>>

remove_product(product_name) ==
  LET k == Find(product_name)
  IN IF k # 0
     THEN /\ products' = list_remove(products, products[k])
          /\ heap' = Collect(heap, products', history)
          /\ ret' = Returned("remove_product", "None")
          /\ UNCHANGED <<history, clock>>
     ELSE /\ ret' = Returned("remove_product", "ProductNotFoundError")
          /\ UNCHANGED <<heap, products, history, clock>>

edit_product(product_name, quantity, price, notes, category) ==
  LET k == Find(product_name)
  IN IF k # 0
     THEN /\ heap' = [heap EXCEPT ![products[k]] = edit(@, quantity, price, notes, category)]
          /\ ret' = Returned("edit_product", "None")
          /\ UNCHANGED <<products, history, clock>>
     ELSE /\ ret' = Returned("edit_product", "ProductNotFoundError")
          /\ UNCHANGED <<heap, products, history, clock>>

\* mutant: the live object itself is appended to history
product_for_history_shared(h, pid) == <<h, pid>>

\* The object appended to history: <<heap after the construction, object id>>.
product_for_history(h, pid) ==
  LET id == FreshStoreId(h)
      product == h[pid]
  IN <<h @@ (id :> Product(product.name, product.quantity, product.category,
                           product.price, product.notes, TRUE)), id>>

\* datetime.datetime.now(): successive readings are successive instants.
now == clock

mark_product_as_bought(product_name) ==
  LET k == Find(product_name)
  IN IF k # 0
     THEN /\ Len(history) < MaxHistory
          /\ LET h1 == [heap EXCEPT ![products[k]] = mark_as_bought(@)]
                 pfh == product_for_history(h1, products[k])
             IN /\ heap' = pfh[1]
                /\ history' = Append(history, <<pfh[2], now>>)
          /\ clock' = clock + 1
          /\ ret' = Returned("mark_product_as_bought", "None")
          /\ UNCHANGED products
     ELSE /\ ret' = Returned("mark_product_as_bought", "ProductNotFoundError")
          /\ UNCHANGED <<heap, products, history, clock>>

\* ---- console text ----
Digit(c) ==
  CASE c = "0" -> 0 [] c = "1" -> 1 [] c = "2" -> 2 [] c = "3" -> 3 [] c = "4" -> 4
    [] c = "5" -> 5 [] c = "6" -> 6 [] c = "7" -> 7 [] c = "8" -> 8 [] c = "9" -> 9

IsNumber(s) ==
  /\ s # <<>>
  /\ \A i \in DOMAIN s : s[i] \in {"0", "1", "2", "3", "4", "5", "6", "7", "8", "9"}

RECURSIVE ParseNumber(_)
ParseNumber(s) ==
  IF s = <<>> THEN 0
  ELSE 10 * ParseNumber(SubSeq(s, 1, Len(s) - 1)) + Digit(s[Len(s)])

LowerChar(c) ==
  CASE c = "B" -> "b" [] c = "I" -> "i" [] c = "O" -> "o" [] c = "X" -> "x"
    [] OTHER -> c

lower(s) == [i \in DOMAIN s |-> LowerChar(s[i])]

Contains(keyword, text) ==
  \E i \in 0..(Len(text) - Len(keyword)) :
    \A j \in 1..Len(keyword) : text[i + j] = keyword[j]

\* [product for product in self.products if product in matching]
Comprehension(matching) == SelectSeq(products, LAMBDA id : id \in matching)

filter_products(criterion, category, min_in, max_in, keyword_in) ==
  LET live == Range(products)
      BoughtTest == {id \in live : heap[id].bought}
      NotBoughtTest == {id \in live : ~heap[id].bought}
      CategoryTest == {id \in live : heap[id].category = category}
      PriceTest == {id \in live : /\ ParseNumber(min_in) <= heap[id].price
                                  /\ heap[id].price <= ParseNumber(max_in)}
      QuantityTest == {id \in live : /\ ParseNumber(min_in) <= heap[id].quantity
                                     /\ heap[id].quantity <= ParseNumber(max_in)}
      NotesTest == {id \in live : Contains(lower(keyword_in), lower(heap[id].notes))}
      List(l) == [op |-> "filter_products", kind |-> "list", value |-> l]
  IN /\ ret' =
          CASE criterion = "bought" -> List(Comprehension(BoughtTest))
            [] criterion = "not bought" -> List(Comprehension(NotBoughtTest))
            [] criterion = "category" -> List(Comprehension(CategoryTest))
            [] criterion = "price range" ->
                 IF IsNumber(min_in) /\ IsNumber(max_in)
                 THEN List(Comprehension(PriceTest))
                 ELSE Returned("filter_products", "ValueError")
            [] criterion = "quantity" ->
                 IF IsNumber(min_in) /\ IsNumber(max_in)
                 THEN List(Comprehension(QuantityTest))
                 ELSE Returned("filter_products", "ValueError")
            [] criterion = "notes" -> List(Comprehension(NotesTest))
            [] OTHER -> Returned("filter_products", "ValueError")
     /\ UNCHANGED <<heap, products, history, clock>>

\* ---- statistics ----
RECURSIVE SumBoughtFrom(_, _, _)
SumBoughtFrom(h, prods, i) ==
  IF i > Len(prods) THEN 0
  ELSE (IF h[prods[i]].bought THEN h[prods[i]].price * h[prods[i]].quantity ELSE 0)
       + SumBoughtFrom(h, prods, i + 1)

\* mutant: the purchases of the history are summed
total_spent_of_history ==
  SumBoughtFrom(heap, [i \in DOMAIN history |-> history[i][1]], 1)

total_spent == SumBoughtFrom(heap, products, 1)

\* mutant: the total is divided by the number of bought records
average_over_bought ==
  IF products # <<>>
  THEN [num |-> total_spent,
        den |-> Cardinality({i \in DOMAIN products : heap[products[i]].bought})]
  ELSE [num |-> 0, den |-> 1]

\* A quotient a / b is kept exact as [num |-> a, den |-> b].
average_spent ==
  IF products # <<>> THEN [num |-> total_spent, den |-> Len(products)]
  ELSE [num |-> 0, den |-> 1]

\* A dict is [keys |-> keys in insertion order, val |-> key -> value].
RECURSIVE product_counts_upto(_)
product_counts_upto(n) ==
  IF n = 0 THEN [keys |-> <<>>, val |-> <<>>]
  ELSE LET d == product_counts_upto(n - 1)
           name == heap[history[n][1]].name
       IN IF name \in Range(d.keys)
          THEN [keys |-> d.keys, val |-> [d.val EXCEPT ![name] = @ + 1]]
          ELSE [keys |-> Append(d.keys, name), val |-> d.val @@ (name :> 1)]

product_counts == product_counts_upto(Len(history))

\* mutant: a later key with an equal count wins
RECURSIVE MaxFromLast(_, _, _)
MaxFromLast(d, best, i) ==
  IF i > Len(d.keys) THEN best
  ELSE MaxFromLast(d, IF d.val[d.keys[i]] >= d.val[best] THEN d.keys[i] ELSE best, i + 1)

RECURSIVE MaxFrom(_, _, _)
MaxFrom(d, best, i) ==
  IF i > Len(d.keys) THEN best
  ELSE MaxFrom(d, IF d.val[d.keys[i]] > d.val[best] THEN d.keys[i] ELSE best, i + 1)

max_by_count(d) == MaxFrom(d, d.keys[1], 2)

most_frequent_product ==
  IF product_counts.keys # <<>> THEN Some(max_by_count(product_counts)) ELSE None

generate_statistics ==
  /\ ret' = [op |-> "generate_statistics", kind |-> "stats",
             value |-> [total_spent |-> total_spent,
                        average_spent |-> average_spent,
                        most_frequent_product |-> most_frequent_product]]
  /\ UNCHANGED <<heap, products, history, clock>>

\* ---- menu loop, choice "3" ----
main_edit(name, quantity_in, price_in, notes_in, category_in) ==
  LET quantity == IF quantity_in # <<>> THEN Some(ParseNumber(quantity_in)) ELSE None
      price == IF price_in # <<>> THEN Some(ParseNumber(price_in)) ELSE None
  IN edit_product(name, quantity, price, Some(notes_in), Some(category_in))

\* ---- bookkeeping of the names removed, for the statements about removal ----
NoteAdd(name) ==
  /\ removed' = removed \ {name}
  /\ removedLast' = removedLast \ {name}

NoteRemove(product_name) ==
  IF Find(product_name) # 0
  THEN /\ removed' = removed \cup {product_name}
       /\ removedLast' =
            IF Cardinality({i \in DOMAIN products :
                              heap[products[i]].name = product_name}) = 1
            THEN removedLast \cup {product_name}
            ELSE removedLast
  ELSE UNCHANGED <<removed, removedLast>>

Unnoted == UNCHANGED <<removed, removedLast>>

\* ---- the store: every operation, on the two products of the catalog ----
Next ==
  \/ \E p \in Catalog :
       add_product(p.name, p.quantity, p.category, p.price, p.notes) /\ Unnoted
  \/ \E name \in Names : remove_product(name) /\ Unnoted
  \/ \E name \in Names, price \in Opt(EditPrices) :
       edit_product(name, None, price, None, None) /\ Unnoted
  \/ \E name \in Names : mark_product_as_bought(name) /\ Unnoted
  \/ \E f \in FilterInputs :
       filter_products(f.criterion, f.category, f.min, f.max, f.keyword) /\ Unnoted
  \/ generate_statistics /\ Unnoted

Spec == Init /\ [][Next]_vars

\* ---- adding and removing only, with the removed names noted ----
NextAddRemove ==
  \/ \E p \in Catalog \cup EggsOnly :
       add_product(p.name, p.quantity, p.category, p.price, p.notes) /\ NoteAdd(p.name)
  \/ \E name \in EditNames : remove_product(name) /\ NoteRemove(name)

SpecAddRemove == Init /\ [][NextAddRemove]_vars

\* ---- editing: a store holding two records named Milk and one named Bread, ----
\* ---- the first Milk bought or not, and every edit of it                   ----
InitEdit ==
  \E b \in BOOLEAN :
    /\ products = <<1, 2, 3>>
    /\ heap = IF b
              THEN (1 :> Product("Milk", 2, "Dairy", 3, Bio, TRUE))
                   @@ (2 :> Product("Bread", 1, "Bakery", 2, <<>>, FALSE))
                   @@ (3 :> Product("Milk", 1, "", 2, <<>>, FALSE))
                   @@ ((-1) :> Product("Milk", 2, "Dairy", 3, Bio, TRUE))
              ELSE (1 :> Product("Milk", 2, "Dairy", 3, Bio, FALSE))
                   @@ (2 :> Product("Bread", 1, "Bakery", 2, <<>>, FALSE))
                   @@ (3 :> Product("Milk", 1, "", 2, <<>>, FALSE))
    /\ history = IF b THEN <<<<-1, 1>>>> ELSE <<>>
    /\ clock = IF b THEN 2 ELSE 1
    /\ ret = Returned("add_product", "None")
    /\ removed = {}
    /\ removedLast = {}

NextEdit ==
  \/ \E name \in EditNames, quantity \in Opt(Quantities), price \in Opt(Prices),
        notes \in Opt(NotesSet), category \in Opt(Categories) :
       edit_product(name, quantity, price, notes, category) /\ Unnoted
  \/ \E name \in EditNames, quantity_in \in NumberInputs, price_in \in NumberInputs,
        notes_in \in NotesInputs, category_in \in CategoryInputs :
       main_edit(name, quantity_in, price_in, notes_in, category_in) /\ Unnoted

SpecEdit == InitEdit /\ [][NextEdit]_vars

\* ======================= the claims =======================
Live(k) == heap[products[k]]
Snapshot(i) == heap[history[i][1]]
Stats == ret.op = "generate_statistics"
Succeeded(op) == ret.op = op /\ ret.kind = "None"

HistoryKept ==
  \A i \in DOMAIN history :
    /\ i \in DOMAIN history'
    /\ history'[i][2] = history[i][2]
    /\ heap'[history'[i][1]] = heap[history[i][1]]

\* C1: history is append-only and its entries are independent snapshots: over
\* every call the old history is a prefix of the new one, each old entry
\* keeping its position, its timestamp and its six field values; an edit or a
\* removal of the live record leaves the entries as they were.
C1_HistoryAppendOnly == [][HistoryKept]_vars

C1_Witness ==
  /\ Succeeded("edit_product")
  /\ Len(products) = 1
  /\ \E i \in DOMAIN history :
       /\ Snapshot(i).name = Live(1).name
       /\ Snapshot(i).price = 3
       /\ Live(1).price = 5
       /\ Live(1).bought

MarkEffect(n) ==
  LET k == Find(n)
      marked == [Live(k) EXCEPT !.bought = TRUE]
  IN /\ products' = products
     /\ heap'[products[k]] = marked
     /\ \A j \in DOMAIN products : j # k => heap'[products[j]] = Live(j)
     /\ Len(history') = Len(history) + 1
     /\ HistoryKept
     /\ heap'[history'[Len(history')][1]] = marked

\* C2: mark_product_as_bought(name) on a name some record has sets bought on the
\* first such record, leaves products otherwise unchanged, and appends to
\* history exactly one entry whose snapshot has the record's fields at call time
\* and bought = true; also when the record was bought already.
C2_MarkAppendsSnapshot ==
  [][\A n \in Names : (Find(n) # 0 /\ mark_product_as_bought(n)) => MarkEffect(n)]_vars

C2_Witness ==
  /\ Succeeded("mark_product_as_bought")
  /\ Len(products) = 2
  /\ Len(history) = 2
  /\ Snapshot(1) = Snapshot(2)
  /\ Live(1) = Snapshot(2)
  /\ Live(2).name = Live(1).name
  /\ ~Live(2).bought

\* C3: remove_product, edit_product and mark_product_as_bought with a name that
\* no record has end in ProductNotFoundError and leave products and history
\* exactly as they were.
C3_NotFoundLeavesStore ==
  [][\A n \in Names :
       (/\ Find(n) = 0
        /\ \/ remove_product(n)
           \/ mark_product_as_bought(n)
           \/ \E price \in Opt(EditPrices) : edit_product(n, None, price, None, None))
       => /\ ret'.kind = "ProductNotFoundError"
          /\ UNCHANGED <<heap, products, history>>]_vars

C3_Witness ==
  /\ ret.kind = "ProductNotFoundError"
  /\ products # <<>>
  /\ history # <<>>

\* C4 as stated: products never contains a record whose name was passed to a
\* successful remove_product and not to add_product again since.
C4_RemovedNameAbsent == \A n \in removed : Find(n) = 0

\* C4, amended: products never contains a record whose name was passed to a
\* successful remove_product while exactly one record had that name, and not to
\* add_product again since.
C4_LastRemovedNameAbsent == \A n \in removedLast : Find(n) = 0

C4_Witness ==
  /\ Succeeded("remove_product")
  /\ removedLast # {}
  /\ removed # removedLast
  /\ products # <<>>

EditEffect(n, quantity, price, notes, category) ==
  LET k == Find(n)
      new == heap'[products[k]]
  IN /\ new.quantity = (IF quantity = None THEN Live(k).quantity ELSE quantity[1])
     /\ new.price = (IF price = None THEN Live(k).price ELSE price[1])
     /\ new.notes = (IF notes = None THEN Live(k).notes ELSE notes[1])
     /\ new.category = (IF category = None THEN Live(k).category ELSE category[1])
     /\ new.name = Live(k).name
     /\ new.bought = Live(k).bought
     /\ \A j \in DOMAIN products : j # k => heap'[products[j]] = Live(j)
     /\ products' = products
     /\ history' = history
     /\ HistoryKept
     /\ (quantity = None /\ price = None /\ notes = None /\ category = None
           => heap' = heap)

\* C5: edit_product on an existing name is a sparse update of the first record
\* with that name: a supplied parameter overwrites its own field, an omitted one
\* leaves it; name, bought, the other records, the order and the history are
\* unchanged; with all four omitted nothing changes.
C5_EditIsSparse ==
  [][\A n \in EditNames, quantity \in Opt(Quantities), price \in Opt(Prices),
        notes \in Opt(NotesSet), category \in Opt(Categories) :
       (Find(n) # 0 /\ edit_product(n, quantity, price, notes, category))
       => EditEffect(n, quantity, price, notes, category)]_vars

C5_Witness ==
  /\ Succeeded("edit_product")
  /\ history # <<>>
  /\ Live(1) = Product("Milk", 1, "Dairy", 3, Bio, TRUE)
  /\ Live(2) = Product("Bread", 1, "Bakery", 2, <<>>, FALSE)
  /\ Live(3) = Product("Milk", 1, "", 2, <<>>, FALSE)

\* C6: in the edit branch of the menu a field whose input is left blank keeps
\* its current value, for each of quantity, price, notes and category.
C6_BlankKeepsField ==
  [][\A n \in EditNames, quantity_in \in NumberInputs, price_in \in NumberInputs,
        notes_in \in NotesInputs, category_in \in CategoryInputs :
       (Find(n) # 0 /\ main_edit(n, quantity_in, price_in, notes_in, category_in))
       => LET k == Find(n)
              new == heap'[products[k]]
          IN /\ quantity_in = <<>> => new.quantity = Live(k).quantity
             /\ price_in = <<>> => new.price = Live(k).price
             /\ notes_in = <<>> => new.notes = Live(k).notes
             /\ category_in = "" => new.category = Live(k).category]_vars

\* C7 as stated: generate_statistics on an empty product set returns 0, 0 and
\* no most frequent product, in every reachable state with products empty.
C7_EmptyStatistics ==
  (Stats /\ products = <<>>)
  => ret.value = [total_spent |-> 0, average_spent |-> [num |-> 0, den |-> 1],
                  most_frequent_product |-> None]

\* C7, amended: on an empty product set generate_statistics returns
\* total_spent = 0 and average_spent = 0, and no most frequent product exactly
\* when the history is empty too.
C7_EmptyProductsStatistics ==
  (Stats /\ products = <<>>)
  => /\ ret.value.total_spent = 0
     /\ ret.value.average_spent.num = 0
     /\ ret.value.average_spent.den # 0
     /\ ret.value.most_frequent_product = None <=> history = <<>>

C7_Witness == Stats /\ products = <<>> /\ history # <<>>

RECURSIVE SumOver(_)
SumOver(S) ==
  IF S = {} THEN 0
  ELSE LET k == CHOOSE x \in S : TRUE
       IN Live(k).price * Live(k).quantity + SumOver(S \ {k})

BoughtIndexes == {k \in DOMAIN products : Live(k).bought}

\* C8: generate_statistics returns total_spent = the sum of price * quantity
\* over exactly the bought records of products, at their live values, and
\* average_spent = total_spent / the number of all records when there is one,
\* else 0; it changes neither products nor history.
C8_SpentStatistics ==
  [][generate_statistics
       => /\ ret'.value.total_spent = SumOver(BoughtIndexes)
          /\ IF Len(products) > 0
             THEN /\ ret'.value.average_spent.den > 0
                  /\ ret'.value.average_spent.num * Len(products)
                       = SumOver(BoughtIndexes) * ret'.value.average_spent.den
             ELSE ret'.value.average_spent.num = 0
          /\ UNCHANGED <<heap, products, history>>]_vars

C8_Witness ==
  /\ Stats
  /\ Len(products) = 2
  /\ Live(1).bought /\ ~Live(2).bought
  /\ Live(1).price = 5
  /\ \E i \in DOMAIN history : Snapshot(i).name = Live(1).name /\ Snapshot(i).price = 3
  /\ ret.value.total_spent = 10

Occurrences(n) == Cardinality({i \in DOMAIN history : Snapshot(i).name = n})
HistoryNames == {Snapshot(i).name : i \in DOMAIN history}
FirstEntry(n) == CHOOSE i \in DOMAIN history :
                   Snapshot(i).name = n /\ \A j \in 1..(i - 1) : Snapshot(j).name # n

C10_BoughtStays ==
  [][\A id \in Range(products) \cap Range(products') :
       heap[id].bought => heap'[id].bought]_vars

C10_Witness ==
  /\ Succeeded("edit_product")
  /\ Len(products) = 2
  /\ Live(1).bought /\ Live(1).price = 5
  /\ Live(2).bought /\ Live(2).price = 5

====
